---- MODULE Spec2Model ----
(***************************************************************************)
(* Attendance session manager and absentee sweep of the face-recognition   *)
(* attendance system (app/services/attendance_service.py, the two models   *)
(* app/models/attendance_log.py and app/models/attendance.py, and the      *)
(* routes of app/routes/attendance.py that write them).                    *)
(*                                                                         *)
(* The store is the relational database: two tables (sets of rows), each   *)
(* with an autoincrement id and a uniqueness constraint.  Request handlers *)
(* run on worker processes; a handler that reads and later commits is cut  *)
(* at the point between its read and its commit, so that other workers may *)
(* commit in between.  Confidences are in hundredths (0.80 is 80), the     *)
(* clock is in hours.                                                      *)
(***************************************************************************)
EXTENDS Integers, FiniteSets, Sequences, TLC

\* ---------------------------------------------------------------- bounds
MaxCalls == 2            \* handler invocations in one behaviour
MaxClock == 8            \* the clock stops advancing here (hours)

\* ------------------------------------------------------------- constants
NULL == -1                             \* None / SQL NULL
MIN_FACE_CONFIDENCE == 80              \* constants.py: 0.80
AUTO_MARK_ABSENT_HOURS == 8            \* constants.py
ATTENDANCE_STATUSES == {"present", "absent", "late", "excused"}
AbsentNote == "Auto-marked absent after deadline"

\* ---------------------------------------------------------------- inputs
Procs == {1, 2}                       \* worker processes serving requests
Classrooms == {1}                      \* rows of the classrooms table
ClassroomInputs == Classrooms \cup {7} \* 7: no such classroom
Students == {1, 2}                     \* rows of the students table
StudentInputs == Students \cup {9}     \* 9: no such student
StudentClassroom == [s \in Students |-> 1]
SessionDates == {1}                    \* calendar dates
SessionTypeInputs == {"morning", "afternoon", "evening"}
\* <<status, face_confidence, is_face_recognized>> of a check-in: a manual
\* one, recognitions below and above MIN_FACE_CONFIDENCE, a status that is
\* none of ATTENDANCE_STATUSES, a confidence above 1.0
RecordInputs == {<<"present", 0, FALSE>>, <<"late", 70, TRUE>>,
                 <<"present", 70, TRUE>>, <<"present", 95, TRUE>>,
                 <<"holiday", 70, TRUE>>, <<"present", 150, TRUE>>}
ManualStatusInputs == {"absent", "excused", "holiday"}

\* ----------------------------------------------------------------- state
VARIABLES
    students,      \* students table: id -> [classroom_id, is_active]
    logs,          \* attendance_logs table: set of rows
    attendances,   \* attendances table: set of rows
    next_log_id,   \* attendance_logs id sequence
    next_att_id,   \* attendances id sequence
    now,           \* datetime.now(), in hours
    pc,            \* per worker: where its handler stands
    local,         \* per worker: the handler's arguments and what it read,
                   \* and `start`, the value of `calls` when it was invoked
    calls,         \* number of handler calls completed so far
    last_op,       \* the call completed last: what was asked and the outcome
    cog_ret,       \* key -> id the last successful create-or-get returned
    enroll,        \* per student: image count in the database, image files
                   \* in the folder, files in which a face is detected
    disk,          \* trained_models/face_encodings.pkl
    det,           \* FaceRecognitionService._detector
    trainer,       \* the train_model call in progress, if any
    recognizer,    \* the recognition call in progress, if any
    build,         \* what the train_model call completed last returned
    rec,           \* what the recognition call completed last returned
    gcalls         \* number of gallery calls completed so far

attendance == <<students, logs, attendances, next_log_id, next_att_id, now,
                pc, local, calls, last_op, cog_ret>>

gallery == <<enroll, disk, det, trainer, recognizer, build, rec, gcalls>>

vars == <<students, logs, attendances, next_log_id, next_att_id, now,
          pc, local, calls, last_op, cog_ret,
          enroll, disk, det, trainer, recognizer, build, rec, gcalls>>

Keys == Classrooms \X SessionDates \X {"morning", "afternoon"}

Max(a, b) == IF a >= b THEN a ELSE b

NoLocal == [op |-> "none"]
NoOp == [op |-> "none", key |-> <<>>, conf |-> NULL, outcome |-> "none",
         path |-> "none", ret |-> NULL, again |-> FALSE]

\* ------------------------------------------------------------ validators
\* validators.py (second definitions, the ones in effect at import)
is_valid_session_type(session_type) == session_type \in {"morning", "afternoon"}

is_valid_attendance_status(status) == status \in ATTENDANCE_STATUSES

is_valid_confidence_score(confidence) == 0 <= confidence /\ confidence <= 100

\* ----------------------------------------------------------------- store
\* db.session.query(Student).filter_by(classroom_id=c, is_active=True)
ActiveStudents(studs, classroom_id) ==
    {s \in Students : studs[s].classroom_id = classroom_id /\ studs[s].is_active}

\* a lookup that sees the open sessions only
FindOpenLogs(lgs, classroom_id, session_date, session_type) ==
    {l \in lgs : /\ l.classroom_id = classroom_id
                 /\ l.session_date = session_date
                 /\ l.session_type = session_type
                 /\ ~l.is_finalized}

\* filter_by(classroom_id, session_date, session_type).first()
FindLogs(lgs, classroom_id, session_date, session_type) ==
    {l \in lgs : /\ l.classroom_id = classroom_id
                 /\ l.session_date = session_date
                 /\ l.session_type = session_type}

\* db.session.query(AttendanceLog).get(id)
GetLog(lgs, id) == {l \in lgs : l.id = id}

\* filter_by(student_id, attendance_log_id).first()
FindAttendances(atts, student_id, log_id) ==
    {a \in atts : a.student_id = student_id /\ a.attendance_log_id = log_id}

\* filter_by(attendance_log_id=log_id).all()
SessionAttendance(atts, log_id) == {a \in atts : a.attendance_log_id = log_id}

\* a table without the session constraint
NoSessionConstraint(lgs, row) == TRUE

\* UniqueConstraint('classroom_id', 'session_date', 'session_type')
unique_session_per_classroom(lgs, row) ==
    \A l \in lgs : ~(/\ l.classroom_id = row.classroom_id
                     /\ l.session_date = row.session_date
                     /\ l.session_type = row.session_type)

\* a table without the record constraint
NoStudentConstraint(atts, row) == TRUE

\* UniqueConstraint('student_id', 'attendance_log_id')
unique_student_per_log(atts, row) ==
    \A a \in atts : ~(/\ a.student_id = row.student_id
                      /\ a.attendance_log_id = row.attendance_log_id)

\* nullable=False on student_id, classroom_id, attendance_log_id
\* a table that accepts a row with any column empty
NoNotNull(row) == TRUE

AttendanceNotNull(row) ==
    /\ row.student_id # NULL
    /\ row.classroom_id # NULL
    /\ row.attendance_log_id # NULL

\* whether the commit of the pending attendance rows `rows` succeeds
AttendanceCommitOK(atts, rows) ==
    /\ \A r \in rows : AttendanceNotNull(r) /\ unique_student_per_log(atts, r)
    /\ \A r1, r2 \in rows :
         (r1.student_id = r2.student_id
            /\ r1.attendance_log_id = r2.attendance_log_id) => r1 = r2

\* AttendanceLog(...) as built by create_or_get_attendance_log
NewLog(id, classroom_id, session_date, session_type, start_time, total) ==
    [id |-> id, classroom_id |-> classroom_id, session_date |-> session_date,
     session_type |-> session_type, start_time |-> start_time,
     end_time |-> NULL, total_students |-> total, present_count |-> 0,
     absent_count |-> 0, late_count |-> 0, excused_count |-> 0,
     is_finalized |-> FALSE]

\* Attendance(...) as built by record_attendance
NewAttendance(id, student_id, log, status, confidence, recognized, notes) ==
    [id |-> id, student_id |-> student_id, classroom_id |-> log.classroom_id,
     attendance_log_id |-> log.id, status |-> status,
     face_confidence |-> confidence, is_face_recognized |-> recognized,
     notes |-> notes]

\* Attendance(...) as built by mark_absent_unrecorded: no classroom_id given
AbsentAttendance(id, student_id, log_id) ==
    [id |-> id, student_id |-> student_id, classroom_id |-> NULL,
     attendance_log_id |-> log_id, status |-> "absent",
     face_confidence |-> 0, is_face_recognized |-> FALSE,
     notes |-> AbsentNote]

\* ---------------------------------------------------------------- gallery
DEFAULT_FACE_CONFIDENCE == 60     \* constants.py: 0.6, the detector's threshold
MinFaceImagesCount == 3           \* train_model: face_images_count >= 3
MinFolderImages == 2              \* train_model: len(image_files) >= 2
min_images == 2                   \* train_model: train_person(min_images=2)

\* Student.full_name, the label stored in the gallery
full_name == [s \in Students |-> IF s = 1 THEN "An" ELSE "Binh"]

\* enrollments of one student: the image count of the database row, the
\* image files in the student's folder (0: no folder) and the files in
\* which a face is detected
EnrollInputs ==
    {[count |-> 3, files |-> 3, faces |-> 3],
     [count |-> 3, files |-> 3, faces |-> 1],
     [count |-> 3, files |-> 3, faces |-> 0],
     [count |-> 3, files |-> 1, faces |-> 1],
     [count |-> 3, files |-> 0, faces |-> 0],
     [count |-> 1, files |-> 1, faces |-> 1]}

NotEnrolled == [count |-> 0, files |-> 0, faces |-> 0]

\* the encoding of the k-th image of student s in which a face is detected
Encoding(s, k) == [owner |-> s, img |-> k]

\* FaceTrainer.train_person on the folder of student s
train_person(enr, s, minimum) ==
    IF enr[s].files = 0
    THEN [success |-> FALSE, message |-> "Folder not found", encodings |-> <<>>]
    ELSE IF enr[s].files < minimum
    THEN [success |-> FALSE, message |-> "Not enough images", encodings |-> <<>>]
    ELSE IF enr[s].faces = 0
    THEN [success |-> FALSE, message |-> "No valid face encodings",
          encodings |-> <<>>]
    ELSE [success |-> TRUE, message |-> "Successfully trained",
          encodings |-> [k \in 1..enr[s].faces |-> Encoding(s, k)]]

\* the rows of a query, in id order
RECURSIVE InIdOrder(_)
InIdOrder(S) ==
    IF S = {} THEN <<>>
    ELSE LET s == CHOOSE x \in S : \A y \in S : x <= y
         IN <<s>> \o InIdOrder(S \ {s})

NoLists == [known_encodings |-> <<>>, known_names |-> <<>>,
            trained_persons |-> <<>>, failed_persons |-> <<>>]

\* train_model, lines 139-181: the loop over students_with_folders
RECURSIVE TrainLoop(_, _, _)
TrainLoop(enr, todo, acc) ==
    IF todo = <<>> THEN acc
    ELSE LET s == Head(todo)
             r == train_person(enr, s, min_images)
             names == [k \in 1..Len(r.encodings) |-> full_name[s]]
         IN TrainLoop(enr, Tail(todo),
              IF r.success /\ r.encodings # <<>>
              THEN [acc EXCEPT
                      !.known_encodings = @ \o r.encodings,
                      !.known_names = @ \o names,
                      !.trained_persons = Append(@, s)]
              ELSE [acc EXCEPT !.failed_persons = Append(@, s)])

\* pickle.dump of {'encodings': ..., 'names': ...}: the two lists one after
\* the other, each behind its key and its length
Dump(encodings, names) ==
    <<<<"encodings", Len(encodings)>>>>
      \o [i \in 1..Len(encodings) |-> <<"item", encodings[i]>>]
      \o <<<<"names", Len(names)>>>>
      \o [i \in 1..Len(names) |-> <<"item", names[i]>>]

\* pickle.load and the two data.get(...) of load_model
Load(blob) ==
    LET n == blob[1][2]
        k == blob[n + 2][2]
    IN [encodings |-> [i \in 1..n |-> blob[1 + i][2]],
        names |-> [i \in 1..k |-> blob[n + 2 + i][2]]]

\* no model file: os.path.exists(model_path) is false
NoFile == <<>>

\* FaceRecognitionService._detector is None
NoDetector == [exists |-> FALSE, known_encodings |-> <<>>, known_names |-> <<>>,
               model_loaded |-> FALSE]

\* FaceDetector.__init__
NewDetector == [NoDetector EXCEPT !.exists = TRUE]

NoBuild == [success |-> FALSE, trained_count |-> 0, failed_count |-> 0,
            total_encodings |-> 0, trained_persons |-> <<>>,
            failed_persons |-> <<>>, saved |-> FALSE]

\* no camera frame
NoFrame == [face |-> FALSE, near |-> 0, d_near |-> 0, d_far |-> 0]

\* the verdict of the recognition completed last, with what it was computed
\* from (the frame, the encodings and the labels it read, the index of its
\* match) and `again`: the recognition completed before it read the same
\* frame, encodings and labels
NoRec == [outcome |-> "none", name |-> "Unknown", confidence |-> NULL,
          encodings |-> <<>>, index |-> 0, frame |-> NoFrame,
          names |-> <<>>, again |-> FALSE, faces_detected |-> NULL,
          student |-> NULL]

Idle == [pc |-> "idle"]

\* the gallery part at rest: nothing enrolled, no file, no detector
GalleryOff ==
    /\ enroll = [s \in Students |-> NotEnrolled]
    /\ disk = NoFile
    /\ det = NoDetector
    /\ trainer = Idle
    /\ recognizer = Idle
    /\ build = NoBuild
    /\ rec = NoRec
    /\ gcalls = 0

\* The stores a behaviour starts from: the empty store; the store after one
\* create_or_get_attendance_log(1, 1, "morning") at time 0; and that
\* store after one manual check-in record_attendance(1, 1, "present").
EmptyStore == [logs |-> {}, attendances |-> {}, next_log_id |-> 1,
               next_att_id |-> 1, cog_ret |-> [k \in Keys |-> NULL]]

OpenSession ==
    [logs |-> {NewLog(1, 1, 1, "morning", 0, Cardinality(Students))},
     attendances |-> {}, next_log_id |-> 2, next_att_id |-> 1,
     cog_ret |-> [k \in Keys |-> IF k[3] = "morning" THEN 1 ELSE NULL]]

RecordedSession ==
    [OpenSession EXCEPT
       !.attendances = {NewAttendance(1, 1, CHOOSE l \in OpenSession.logs : TRUE,
                                      "present", 0, FALSE, "")},
       !.next_att_id = 2]

\* a session that started AUTO_MARK_ABSENT_HOURS ago in which every student
\* of the roster has checked in (student 1 recognized, student 2 by hand)
StaleSession ==
    LET log == NewLog(1, 1, 1, "morning", 0 - AUTO_MARK_ABSENT_HOURS,
                      Cardinality(Students))
    IN [OpenSession EXCEPT
          !.logs = {log},
          !.attendances = {NewAttendance(1, 1, log, "present", 95, TRUE, ""),
                           NewAttendance(2, 2, log, "late", 0, FALSE, "")},
          !.next_att_id = 3]

Init ==
    /\ students = [s \in Students |->
                     [classroom_id |-> StudentClassroom[s], is_active |-> TRUE]]
    /\ \E store \in {EmptyStore, OpenSession, RecordedSession, StaleSession} :
         /\ logs = store.logs
         /\ attendances = store.attendances
         /\ next_log_id = store.next_log_id
         /\ next_att_id = store.next_att_id
         /\ cog_ret = store.cog_ret
    /\ now = 0
    /\ pc = [p \in Procs |-> "idle"]
    /\ local = [p \in Procs |-> NoLocal]
    /\ calls = 0
    /\ last_op = NoOp
    /\ GalleryOff


\* a worker may take a new request
InFlight == {p \in Procs : pc[p] # "idle"}

\* a request goes to the first idle worker (an idle worker keeps no state)
CanStart(p) ==
    /\ pc[p] = "idle"
    /\ \A q \in Procs : pc[q] = "idle" => p <= q
    /\ calls + Cardinality(InFlight) < MaxCalls

\* the bookkeeping of a call that returns or raises in this step; `again`
\* tells that the call completed before it was a successful one of the same
\* operation with the same arguments
Complete(p, op) ==
    /\ calls' = calls + 1
    /\ last_op' = [op EXCEPT !.again = /\ last_op.op = op.op
                                       /\ last_op.key = op.key
                                       /\ last_op.outcome = "ok"]
    /\ pc' = [pc EXCEPT ![p] = "idle"]
    /\ local' = [local EXCEPT ![p] = NoLocal]

\* the record of a completed call
Call(op, key, conf, outcome, path, ret) ==
    [op |-> op, key |-> key, conf |-> conf, outcome |-> outcome,
     path |-> path, ret |-> ret, again |-> FALSE]

\* a call that raised: rollback, nothing returned
Raised(op, error) == Call(op, <<>>, NULL, error, "raised", NULL)

NoRow == [id |-> NULL]

\* ------------------------------------- create_or_get_attendance_log
\* lines 27-39: the classroom and session-type checks and the lookup; an
\* existing log is returned as it is
CogLookup(p, classroom_id, session_date, session_type) ==
    LET args == [classroom_id |-> classroom_id, session_date |-> session_date,
                 session_type |-> session_type]
        key == <<classroom_id, session_date, session_type>>
        found == FindLogs(logs, classroom_id, session_date, session_type)
    IN
    /\ CanStart(p)
    /\ UNCHANGED gallery
    /\ UNCHANGED <<students, logs, attendances, next_log_id, next_att_id, now>>
    /\ IF classroom_id \notin Classrooms \/ ~is_valid_session_type(session_type)
       THEN /\ Complete(p, Raised("create_or_get", "ValueError"))
            /\ UNCHANGED cog_ret
       ELSE IF found # {}
       THEN \E l \in found :
              /\ Complete(p, Call("create_or_get", key, NULL, "ok", "found", l.id))
              /\ cog_ret' = [cog_ret EXCEPT
                               ![key] = l.id]
       ELSE /\ pc' = [pc EXCEPT ![p] = "cog_insert"]
            /\ local' = [local EXCEPT ![p] =
                           [op |-> "create_or_get", args |-> args, start |-> calls,
                            prior |-> cog_ret[key]]]
            /\ UNCHANGED <<calls, last_op, cog_ret>>

\* lines 41-57: count the active roster, add the new log and commit; the
\* commit fails on the uniqueness constraint (lines 62-65: rollback, raise)
CogInsert(p) ==
    LET a == local[p].args
        total == Cardinality(ActiveStudents(students, a.classroom_id))
        key == <<a.classroom_id, a.session_date, a.session_type>>
        row == NewLog(next_log_id, a.classroom_id, a.session_date,
                      a.session_type, now, total)
    IN
    /\ pc[p] = "cog_insert"
    /\ UNCHANGED gallery
    /\ next_log_id' = next_log_id + 1
    /\ UNCHANGED <<students, attendances, next_att_id, now>>
    /\ IF unique_session_per_classroom(logs, row)
       THEN /\ logs' = logs \cup {row}
            /\ Complete(p, Call("create_or_get", key, NULL, "ok", "created", row.id))
            /\ cog_ret' = [cog_ret EXCEPT
                             ![key] = row.id]
       ELSE /\ logs' = logs
            /\ Complete(p, Raised("create_or_get", "IntegrityError"))
            /\ UNCHANGED cog_ret

\* ------------------------------------------------- record_attendance
\* a comparison that lets an equal confidence through
AtLeastConfidence(face_confidence, existing) ==
    face_confidence >= existing.face_confidence

\* line 97: the new confidence is compared with the one that was read
HigherConfidence(face_confidence, existing) ==
    face_confidence > existing.face_confidence

\* an update that writes the confidence and forgets the status
UpdateConfidenceOnly(cur, existing, status, face_confidence) ==
    [cur EXCEPT !.face_confidence = face_confidence]

\* lines 98-101: the UPDATE the commit emits for the row `cur`: the ORM
\* writes the attributes whose value differs from the one it loaded
UpdateExisting(cur, existing, status, face_confidence) ==
    [cur EXCEPT !.face_confidence = face_confidence,
                !.status = IF status # existing.status THEN status ELSE @]

\* lines 72-92: the lookups, the validations and the read of the existing row
RaRead(p, student_id, log_id, status, face_confidence, recognized) ==
    LET args == [student_id |-> student_id, log_id |-> log_id,
                 status |-> status, face_confidence |-> face_confidence,
                 recognized |-> recognized]
        log == GetLog(logs, log_id)
        existing == FindAttendances(attendances, student_id, log_id)
    IN
    /\ CanStart(p)
    /\ UNCHANGED gallery
    /\ UNCHANGED <<students, logs, attendances, next_log_id, next_att_id, now,
                   cog_ret>>
    /\ IF \/ student_id \notin Students
          \/ log = {}
          \/ ~is_valid_attendance_status(status)
          \/ (face_confidence # 0 /\ ~is_valid_confidence_score(face_confidence))
       THEN Complete(p, Raised("record_attendance", "ValueError"))
       ELSE /\ pc' = [pc EXCEPT ![p] = "ra_write"]
            /\ \E l \in log : \E e \in (IF existing = {} THEN {NoRow} ELSE existing) :
                 local' = [local EXCEPT ![p] =
                             [op |-> "record_attendance", args |-> args, log |-> l,
                              existing |-> e, start |-> calls]]
            /\ UNCHANGED <<calls, last_op>>

\* lines 94-124: the merge into the existing row, or the insert, and the
\* commit (lines 126-129: rollback and raise when the commit fails)
RaWrite(p) ==
    LET a == local[p].args
        e == local[p].existing
        key == <<a.student_id, a.log_id>>
        row == NewAttendance(next_att_id, a.student_id, local[p].log, a.status,
                             a.face_confidence, a.recognized, "")
    IN
    /\ pc[p] = "ra_write"
    /\ UNCHANGED gallery
    /\ UNCHANGED <<students, logs, next_log_id, now, cog_ret>>
    /\ IF e.id # NULL
       THEN /\ next_att_id' = next_att_id
            /\ IF HigherConfidence(a.face_confidence, e)
               THEN /\ attendances' =
                         {IF r.id = e.id
                          THEN UpdateExisting(r, e, a.status, a.face_confidence)
                          ELSE r : r \in attendances}
                    /\ Complete(p, Call("record_attendance", key, a.face_confidence, "ok",
                                        "updated", e.id))
               ELSE /\ attendances' = attendances
                    /\ Complete(p, Call("record_attendance", key, a.face_confidence, "ok",
                                        "unchanged", e.id))
       ELSE /\ next_att_id' = next_att_id + 1
            /\ IF AttendanceCommitOK(attendances, {row})
               THEN /\ attendances' = attendances \cup {row}
                    /\ Complete(p, Call("record_attendance", key, a.face_confidence, "ok",
                                        "inserted", row.id))
               ELSE /\ attendances' = attendances
                    /\ Complete(p, Raised("record_attendance", "IntegrityError"))

\* ---------------------------------------------- AttendanceLog statistics
CountStatus(atts, log_id, status) ==
    Cardinality({a \in SessionAttendance(atts, log_id) : a.status = status})

\* statistics that add the counts of the records to the stored counts
AccumulateStatistics(log, studs, atts) ==
    [log EXCEPT
       !.present_count = @ + CountStatus(atts, log.id, "present"),
       !.absent_count = @ + CountStatus(atts, log.id, "absent"),
       !.late_count = @ + CountStatus(atts, log.id, "late"),
       !.excused_count = @ + CountStatus(atts, log.id, "excused")]

\* AttendanceLog.calculate_statistics: total_students is refreshed from the
\* roster only when it is 0 or None; the four counts come from the records
calculate_statistics(log, studs, atts) ==
    LET total_students == Cardinality(ActiveStudents(studs, log.classroom_id))
    IN [log EXCEPT
          !.total_students = IF @ = 0 \/ @ = NULL THEN total_students ELSE @,
          !.present_count = CountStatus(atts, log.id, "present"),
          !.absent_count = CountStatus(atts, log.id, "absent"),
          !.late_count = CountStatus(atts, log.id, "late"),
          !.excused_count = CountStatus(atts, log.id, "excused")]

\* a flag that is flipped instead of set
ToggleFinalized(log) == [log EXCEPT !.is_finalized = ~@]

\* log.is_finalized = True
SetFinalized(log) == [log EXCEPT !.is_finalized = TRUE]

\* a finalize that keeps the roster size recorded at creation
FinalizeKeepSnapshot(log, studs, atts, time) ==
    [SetFinalized(calculate_statistics(log, studs, atts)) EXCEPT !.end_time = time]

\* finalize_attendance_log, lines 197-208
finalize_attendance_log(log, studs, atts, time) ==
    LET total_students == Cardinality(ActiveStudents(studs, log.classroom_id))
        counted == calculate_statistics(
                       [log EXCEPT !.total_students = total_students], studs, atts)
    IN [SetFinalized(counted) EXCEPT !.end_time = time]

\* stop_attendance_session, lines 654-662
stop_attendance_session(log, studs, atts, time) ==
    SetFinalized(calculate_statistics([log EXCEPT !.end_time = time], studs, atts))

\* finalize_attendance_log as a request (POST /attendance/finalize)
Finalize(p, log_id) ==
    LET log == GetLog(logs, log_id) IN
    /\ CanStart(p)
    /\ UNCHANGED gallery
    /\ UNCHANGED <<students, attendances, next_log_id, next_att_id, now, cog_ret>>
    /\ IF log = {}
       THEN /\ logs' = logs
            /\ Complete(p, Call("finalize", <<log_id>>, NULL, "ValueError", "raised",
                                NULL))
       ELSE /\ logs' = {IF l.id = log_id
                        THEN finalize_attendance_log(l, students, attendances, now)
                        ELSE l : l \in logs}
            /\ Complete(p, Call("finalize", <<log_id>>, NULL, "ok", "finalized", log_id))

\* POST /attendance/stop-session
Stop(p, log_id) ==
    LET log == GetLog(logs, log_id) IN
    /\ CanStart(p)
    /\ UNCHANGED gallery
    /\ UNCHANGED <<students, attendances, next_log_id, next_att_id, now, cog_ret>>
    /\ IF log = {}
       THEN /\ logs' = logs
            /\ Complete(p, Raised("stop", "NotFound"))
       ELSE /\ logs' = {IF l.id = log_id
                        THEN stop_attendance_session(l, students, attendances, now)
                        ELSE l : l \in logs}
            /\ Complete(p, Call("stop", <<log_id>>, NULL, "ok", "finalized", log_id))

\* update_attendance_status (and PUT /attendance/<id>): the status of a
\* record is set by hand
UpdateStatus(p, attendance_id, status) ==
    LET found == {a \in attendances : a.id = attendance_id} IN
    /\ CanStart(p)
    /\ UNCHANGED gallery
    /\ UNCHANGED <<students, logs, next_log_id, next_att_id, now, cog_ret>>
    /\ IF found = {} \/ ~is_valid_attendance_status(status)
       THEN /\ attendances' = attendances
            /\ Complete(p, Raised("update_status", "ValueError"))
       ELSE /\ attendances' = {IF a.id = attendance_id
                               THEN [a EXCEPT !.status = status]
                               ELSE a : a \in attendances}
            /\ Complete(p, Call("update_status", <<attendance_id>>, NULL, "ok",
                                "updated", attendance_id))

\* StudentService.deactivate_student / activate_student: a roster edit
SetActive(p, student_id, is_active) ==
    /\ CanStart(p)
    /\ UNCHANGED gallery
    /\ students' = [students EXCEPT ![student_id].is_active = is_active]
    /\ UNCHANGED <<logs, attendances, next_log_id, next_att_id, now, cog_ret>>
    /\ Complete(p, Call("set_active", <<student_id>>, NULL, "ok", "updated", student_id))

\* ------------------------------------------------ mark_absent_unrecorded
\* the store as a handler that runs in one step finds it
Store ==
    [logs |-> logs, attendances |-> attendances, students |-> students,
     next_log_id |-> next_log_id, next_att_id |-> next_att_id, now |-> now]

\* The whole of mark_absent_unrecorded on the store db: the classroom check,
\* the nested create-or-get (which commits on its own), one pending absent
\* row per active student without a record, and the commit of those rows; a
\* failed commit rolls all of them back.
mark_absent_unrecorded(db, classroom_id, session_date, session_type) ==
    LET lgs == db.logs
        atts == db.attendances
        studs == db.students
        log_seq == db.next_log_id
        att_seq == db.next_att_id
        time == db.now
    IN
    IF classroom_id \notin Classrooms \/ ~is_valid_session_type(session_type)
    THEN [outcome |-> "ValueError", logs |-> lgs, attendances |-> atts,
          next_log_id |-> log_seq, next_att_id |-> att_seq, marked |-> 0,
          log_id |-> NULL]
    ELSE
    LET found == FindLogs(lgs, classroom_id, session_date, session_type)
        roster == ActiveStudents(studs, classroom_id)
        log == IF found = {}
               THEN NewLog(log_seq, classroom_id, session_date, session_type,
                           time, Cardinality(roster))
               ELSE CHOOSE l \in found : TRUE
        unrecorded == {s \in roster : FindAttendances(atts, s, log.id) = {}}
        rows == {AbsentAttendance(att_seq + Cardinality({t \in unrecorded : t < s}),
                                  s, log.id) : s \in unrecorded}
        created == found # {} \/ unique_session_per_classroom(lgs, log)
        ok == created /\ AttendanceCommitOK(atts, rows)
    IN IF ~created
       THEN [outcome |-> "IntegrityError", logs |-> lgs, attendances |-> atts,
             next_log_id |-> log_seq + 1, next_att_id |-> att_seq, marked |-> 0,
             log_id |-> NULL]
       ELSE
       [outcome |-> IF ok THEN "ok" ELSE "IntegrityError",
        logs |-> lgs \cup {log},
        attendances |-> IF ok THEN atts \cup rows ELSE atts,
        next_log_id |-> IF found = {} THEN log_seq + 1 ELSE log_seq,
        next_att_id |-> IF ok THEN att_seq + Cardinality(rows) ELSE att_seq + 1,
        marked |-> IF ok THEN Cardinality(rows) ELSE 0,
        log_id |-> log.id]

\* POST /attendance/auto-mark-absent
MarkAbsent(p, classroom_id, session_date, session_type) ==
    LET r == mark_absent_unrecorded(Store, classroom_id, session_date, session_type)
        key == <<classroom_id, session_date, session_type>>
    IN
    /\ CanStart(p)
    /\ UNCHANGED gallery
    /\ logs' = r.logs
    /\ attendances' = r.attendances
    /\ next_log_id' = r.next_log_id
    /\ next_att_id' = r.next_att_id
    /\ cog_ret' = IF r.log_id # NULL THEN [cog_ret EXCEPT ![key] = r.log_id]
                  ELSE cog_ret
    /\ UNCHANGED <<students, now>>
    /\ IF r.outcome = "ok"
       THEN Complete(p, Call("mark_absent", key, NULL, "ok", "marked", r.marked))
       ELSE Complete(p, Raised("mark_absent", r.outcome))

\* --------------------------------------- auto_mark_absent_after_deadline
\* the logs that started before the cutoff, finalized or not
StaleLogs(lgs, time) ==
    {l \in lgs : l.start_time <= time - AUTO_MARK_ABSENT_HOURS}

\* lines 269-275: the unfinalized logs that started before the cutoff
OldLogs(lgs, time) ==
    {l \in lgs : l.start_time <= time - AUTO_MARK_ABSENT_HOURS /\ ~l.is_finalized}

SweepStart(p) ==
    /\ CanStart(p)
    /\ UNCHANGED gallery
    /\ UNCHANGED <<students, logs, attendances, next_log_id, next_att_id, now,
                   cog_ret>>
    /\ IF OldLogs(logs, now) = {}
       THEN Complete(p, Call("sweep", <<>>, NULL, "ok", "none", 0))
       ELSE /\ pc' = [pc EXCEPT ![p] = "sweep"]
            /\ local' = [local EXCEPT ![p] =
                           [op |-> "sweep", old_logs |-> OldLogs(logs, now),
                            total_marked |-> 0, start |-> calls]]
            /\ UNCHANGED <<calls, last_op>>

\* lines 278-285, one turn of the loop: mark, then finalize; an exception
\* leaves the loop and the job (lines 290-292)
SweepStep(p) ==
    /\ pc[p] = "sweep"
    /\ UNCHANGED gallery
    /\ \E l \in local[p].old_logs :
         LET r == mark_absent_unrecorded(Store, l.classroom_id, l.session_date,
                                         l.session_type)
             key == <<l.classroom_id, l.session_date, l.session_type>>
             rest == local[p].old_logs \ {l}
             total == local[p].total_marked + r.marked
         IN
         /\ attendances' = r.attendances
         /\ next_log_id' = r.next_log_id
         /\ next_att_id' = r.next_att_id
         /\ cog_ret' = IF r.log_id # NULL THEN [cog_ret EXCEPT ![key] = r.log_id]
                       ELSE cog_ret
         /\ UNCHANGED <<students, now>>
         /\ IF r.outcome # "ok"
            THEN /\ logs' = r.logs
                 /\ Complete(p, Raised("sweep", r.outcome))
            ELSE /\ logs' = {IF x.id = l.id
                             THEN finalize_attendance_log(x, students,
                                                          r.attendances, now)
                             ELSE x : x \in r.logs}
                 /\ IF rest = {}
                    THEN Complete(p, Call("sweep", <<>>, NULL, "ok", "swept", total))
                    ELSE /\ local' = [local EXCEPT ![p].old_logs = rest,
                                                   ![p].total_marked = total]
                         /\ UNCHANGED <<pc, calls, last_op>>

\* the clock advances
Tick ==
    /\ now < MaxClock
    /\ UNCHANGED gallery
    /\ now' = now + AUTO_MARK_ABSENT_HOURS
    /\ UNCHANGED <<students, logs, attendances, next_log_id, next_att_id,
                   pc, local, calls, last_op, cog_ret>>

Next ==
    \/ Tick
    \/ \E p \in Procs :
         \/ \E c \in ClassroomInputs, d \in SessionDates, t \in SessionTypeInputs :
              CogLookup(p, c, d, t)
         \/ CogInsert(p)
         \/ \E s \in StudentInputs, l \in {x.id : x \in logs} \cup {next_log_id},
                r \in RecordInputs :
              RaRead(p, s, l, r[1], r[2], r[3])
         \/ RaWrite(p)
         \/ \E l \in {x.id : x \in logs} \cup {next_log_id} : Finalize(p, l)
         \/ \E l \in {x.id : x \in logs} \cup {next_log_id} : Stop(p, l)
         \/ \E a \in {x.id : x \in attendances} \cup {next_att_id},
                st \in ManualStatusInputs : UpdateStatus(p, a, st)
         \/ \E s \in Students, b \in BOOLEAN : SetActive(p, s, b)
         \/ \E c \in ClassroomInputs, d \in SessionDates, t \in SessionTypeInputs :
              MarkAbsent(p, c, d, t)
         \/ SweepStart(p)
         \/ SweepStep(p)

Spec == Init /\ [][Next]_vars

\* ====================================================================
\* Gallery: train_model, the shared detector and recognition
\* ====================================================================
MaxGalleryCalls == 3     \* gallery calls in one behaviour

\* the classroom_id argument of recognize_student_face: none, the classroom
\* of the students, another classroom
ClassroomRequests == {NULL} \cup ClassroomInputs

\* a camera frame: whether a face is found in it, and the distance of its
\* encoding to the encodings of student `near` and to all others (in
\* hundredths)
QueryInputs ==
    {[face |-> FALSE, near |-> 1, d_near |-> 0, d_far |-> 0],
     [face |-> TRUE, near |-> 1, d_near |-> 10, d_far |-> 70],
     [face |-> TRUE, near |-> 2, d_near |-> 10, d_far |-> 70],
     [face |-> TRUE, near |-> 2, d_near |-> 30, d_far |-> 30],
     [face |-> TRUE, near |-> 1, d_near |-> 120, d_far |-> 130]}

\* the gallery train_model builds when only student 2 is enrolled
OldLists ==
    TrainLoop([s \in Students |->
                 IF s = 2 THEN [count |-> 3, files |-> 3, faces |-> 2]
                 ELSE NotEnrolled],
              <<2>>, NoLists)

OldBlob == Dump(OldLists.known_encodings, OldLists.known_names)

\* FaceDetector.load_model as a whole, on detector d
load_model(d, blob) ==
    IF blob = NoFile THEN d
    ELSE LET data == Load(blob)
             loaded == [d EXCEPT !.known_encodings = data.encodings,
                                 !.known_names = data.names]
         IN IF data.encodings = <<>> \/ data.names = <<>>
            THEN loaded
            ELSE [loaded EXCEPT !.model_loaded = TRUE]

\* FaceRecognitionService.get_detector: the detector, created and loaded
\* at first use
get_detector(d, blob) == IF d.exists THEN d ELSE load_model(NewDetector, blob)

\* the gallery part of the initial states: any enrollment of the two
\* students; no model file, or the file of an earlier training, loaded by
\* the detector or not
GalleryInit ==
    /\ enroll \in [Students -> EnrollInputs]
    /\ \/ disk = NoFile /\ det = NoDetector
       \/ disk = OldBlob /\ det = NoDetector
       \/ disk = OldBlob /\ det = load_model(NewDetector, OldBlob)
    /\ trainer = Idle
    /\ recognizer = Idle
    /\ build = NoBuild
    /\ rec = NoRec
    /\ gcalls = 0

\* student 2, whose images made the earlier gallery, may have been
\* deactivated since
GInit ==
    /\ \E active \in BOOLEAN :
         students = [s \in Students |->
                       [classroom_id |-> StudentClassroom[s],
                        is_active |-> IF s = 2 THEN active ELSE TRUE]]
    /\ logs = EmptyStore.logs
    /\ attendances = EmptyStore.attendances
    /\ next_log_id = EmptyStore.next_log_id
    /\ next_att_id = EmptyStore.next_att_id
    /\ cog_ret = EmptyStore.cog_ret
    /\ now = 0
    /\ pc = [p \in Procs |-> "idle"]
    /\ local = [p \in Procs |-> NoLocal]
    /\ calls = 0
    /\ last_op = NoOp
    /\ GalleryInit

\* a new gallery call may begin
GCanStart ==
    gcalls + Cardinality({x \in {trainer, recognizer} : x.pc # "idle"})
      < MaxGalleryCalls

\* train_model, lines 93-98: active students with enough images on record
ReadyStudents(studs, enr) ==
    {s \in Students : studs[s].is_active /\ enr[s].count >= MinFaceImagesCount}

\* train_model, lines 111-124: those whose folder holds enough image files
StudentsWithFolders(studs, enr) ==
    {s \in ReadyStudents(studs, enr) : enr[s].files >= MinFolderImages}

\* results that report success whatever was trained
ReportSuccess(lists) ==
    [success |-> TRUE,
     trained_count |-> Len(lists.trained_persons),
     failed_count |-> Len(lists.failed_persons),
     total_encodings |-> Len(lists.known_encodings),
     trained_persons |-> lists.trained_persons,
     failed_persons |-> lists.failed_persons,
     saved |-> FALSE]

\* train_model, lines 184-192
Results(lists) ==
    [success |-> Len(lists.trained_persons) > 0,
     trained_count |-> Len(lists.trained_persons),
     failed_count |-> Len(lists.failed_persons),
     total_encodings |-> Len(lists.known_encodings),
     trained_persons |-> lists.trained_persons,
     failed_persons |-> lists.failed_persons,
     saved |-> FALSE]

\* train_model up to the reload of the detector: the two queries, the
\* training loop, the results and save_model
TrainModel ==
    LET ready == ReadyStudents(students, enroll)
        with_folders == StudentsWithFolders(students, enroll)
        lists == TrainLoop(enroll, InIdOrder(with_folders), NoLists)
    IN
    /\ trainer.pc = "idle"
    /\ GCanStart
    /\ UNCHANGED <<attendance, enroll, det, recognizer, rec>>
    /\ IF ready = {}
       THEN /\ build' = NoBuild
            /\ gcalls' = gcalls + 1
            /\ UNCHANGED <<disk, trainer>>
       ELSE IF with_folders = {}
       THEN /\ build' = [NoBuild EXCEPT !.failed_count = Cardinality(ready)]
            /\ gcalls' = gcalls + 1
            /\ UNCHANGED <<disk, trainer>>
       ELSE IF lists.known_encodings = <<>>
       THEN /\ build' = Results(lists)
            /\ gcalls' = gcalls + 1
            /\ UNCHANGED <<disk, trainer>>
       ELSE /\ disk' = Dump(lists.known_encodings, lists.known_names)
            /\ IF det.exists
               THEN /\ trainer' = [pc |-> "load_encodings",
                                   results |-> [Results(lists) EXCEPT !.saved = TRUE],
                                   known_encodings |-> lists.known_encodings,
                                   known_names |-> lists.known_names]
                    /\ UNCHANGED <<build, gcalls>>
               ELSE /\ build' = [Results(lists) EXCEPT !.saved = TRUE]
                    /\ gcalls' = gcalls + 1
                    /\ UNCHANGED trainer

\* load_model on the shared detector, lines 47-51: the file is read and
\* known_encodings is assigned
LoadEncodings ==
    /\ trainer.pc = "load_encodings"
    /\ det' = [det EXCEPT !.known_encodings = Load(disk).encodings]
    /\ trainer' = [trainer EXCEPT !.pc = "load_names"] @@ [data |-> Load(disk)]
    /\ UNCHANGED <<attendance, enroll, disk, recognizer, build, rec, gcalls>>

\* load_model, lines 52-63: known_names is assigned, then model_loaded; the
\* train_model call returns its results
LoadNames ==
    /\ trainer.pc = "load_names"
    /\ det' = [det EXCEPT
                 !.known_names = trainer.data.names,
                 !.model_loaded = IF det.known_encodings = <<>>
                                     \/ trainer.data.names = <<>>
                                  THEN @ ELSE TRUE]
    /\ build' = trainer.results
    /\ gcalls' = gcalls + 1
    /\ trainer' = Idle
    /\ UNCHANGED <<attendance, enroll, disk, recognizer, rec>>

\* face_recognition.face_distance: the distance of the frame's encoding to
\* each known encoding
face_distance(encodings, q) ==
    [i \in 1..Len(encodings) |->
       IF encodings[i].owner = q.near THEN q.d_near ELSE q.d_far]

\* the last index of the least distance
LastArgmin(ds) ==
    CHOOSE i \in 1..Len(ds) :
      /\ \A j \in 1..Len(ds) : ds[i] <= ds[j]
      /\ \A j \in (i + 1)..Len(ds) : ds[j] > ds[i]

\* np.argmin: the first index of the least distance
argmin(ds) ==
    CHOOSE i \in 1..Len(ds) :
      /\ \A j \in 1..Len(ds) : ds[i] <= ds[j]
      /\ \A j \in 1..(i - 1) : ds[j] > ds[i]

\* a recognition that ends before any label is read
Unmatched(outcome, confidence) ==
    [NoRec EXCEPT !.outcome = outcome, !.confidence = confidence]

\* recognize_student_face up to the distances: get_detector, the
\* model_loaded check, detect_faces, and lines 122-136 of recognize_face
\* (face_distance over known_encodings, argmin, confidence)
Recognize(q, classroom_id) ==
    LET d == get_detector(det, disk)
        ds == face_distance(d.known_encodings, q)
        best == argmin(ds)
    IN
    /\ recognizer.pc = "idle"
    /\ GCanStart
    /\ det' = d
    /\ UNCHANGED <<attendance, enroll, disk, trainer, build>>
    /\ IF ~d.model_loaded
       THEN /\ rec' = Unmatched("Model not loaded", NULL)
            /\ gcalls' = gcalls + 1
            /\ UNCHANGED recognizer
       ELSE IF ~q.face
       THEN /\ rec' = Unmatched("No face detected", NULL)
            /\ gcalls' = gcalls + 1
            /\ UNCHANGED recognizer
       ELSE IF d.known_encodings = <<>>
       THEN /\ rec' = Unmatched("Confidence too low", 0)
            /\ gcalls' = gcalls + 1
            /\ UNCHANGED recognizer
       ELSE /\ recognizer' = [pc |-> "name", encodings |-> d.known_encodings,
                              index |-> best, confidence |-> 100 - ds[best],
                              frame |-> q, classroom_id |-> classroom_id]
            /\ UNCHANGED <<rec, gcalls>>

\* recognize_student_face, lines 261-264: the active students of that name;
\* .first() takes one of them, None when there is none
StudentsNamed(studs, name) ==
    {s \in Students : full_name[s] = name /\ studs[s].is_active}

\* recognize_face, lines 142-151: the label is read from known_names when
\* the confidence reaches the threshold (no label is "Unknown", line 163);
\* then lines 253-273 of recognize_student_face: the two thresholds, the
\* lookup of the student by name and the classroom check
RecognizeName ==
    LET c == recognizer.confidence
        i == recognizer.index
        accepted == c >= DEFAULT_FACE_CONFIDENCE
        name == IF accepted /\ i <= Len(det.known_names)
                THEN det.known_names[i] ELSE "Unknown"
        found == StudentsNamed(students, name)
    IN
    /\ recognizer.pc = "name"
    /\ \E student \in (IF found = {} THEN {NULL} ELSE found) :
       LET outcome ==
             IF accepted /\ i > Len(det.known_names) THEN "IndexError"
             ELSE IF c < MIN_FACE_CONFIDENCE THEN "Confidence too low"
             ELSE IF name = "Unknown" THEN "Face not recognized"
             ELSE IF /\ recognizer.classroom_id # NULL
                     /\ student # NULL
                     /\ students[student].classroom_id # recognizer.classroom_id
             THEN "Student not in this class"
             ELSE "ok"
       IN
       rec' = [outcome |-> outcome, name |-> name, confidence |-> c,
               student |-> IF outcome = "ok" THEN student ELSE NULL,
               encodings |-> recognizer.encodings, index |-> i,
               frame |-> recognizer.frame, names |-> det.known_names,
               faces_detected |-> NULL,
               again |-> /\ rec.outcome # "none"
                         /\ rec.frame = recognizer.frame
                         /\ rec.encodings = recognizer.encodings
                         /\ rec.names = det.known_names]
    /\ gcalls' = gcalls + 1
    /\ recognizer' = Idle
    /\ UNCHANGED <<attendance, enroll, disk, det, trainer, build>>

\* FaceDetector.detect_faces: the encodings of the faces found in the frame
detect_faces(d, q) ==
    IF ~d.model_loaded THEN <<>>
    ELSE IF q.face THEN <<q>> ELSE <<>>

\* FaceDetector.recognize_face on detector d, run without interruption;
\* None is "Unknown" (recognize_faces_in_image, line 163)
recognize_face(d, q) ==
    IF ~d.model_loaded \/ d.known_encodings = <<>>
    THEN [name |-> "Unknown", confidence |-> 0, raised |-> FALSE]
    ELSE LET ds == face_distance(d.known_encodings, q)
             best == argmin(ds)
             confidence == 100 - ds[best]
         IN IF confidence < DEFAULT_FACE_CONFIDENCE
            THEN [name |-> "Unknown", confidence |-> confidence,
                  raised |-> FALSE]
            ELSE IF best > Len(d.known_names)
            THEN [name |-> "Unknown", confidence |-> confidence,
                  raised |-> TRUE]
            ELSE [name |-> d.known_names[best], confidence |-> confidence,
                  raised |-> FALSE]

\* FaceDetector.recognize_faces_in_image: one match per face found
recognize_faces_in_image(d, q) ==
    [i \in 1..Len(detect_faces(d, q)) |-> recognize_face(d, detect_faces(d, q)[i])]

\* FaceDetector.process_image_file: what it returns for frame q
process_image_file(d, q) ==
    LET faces == recognize_faces_in_image(d, q)
    IN IF \E i \in 1..Len(faces) : faces[i].raised
       THEN [NoRec EXCEPT !.outcome = "failed", !.frame = q]
       ELSE [NoRec EXCEPT
               !.outcome = "success",
               !.faces_detected = Len(faces),
               !.name = IF faces = <<>> THEN "Unknown" ELSE faces[1].name,
               !.confidence = IF faces = <<>> THEN NULL ELSE faces[1].confidence,
               !.frame = q]

\* process_image_file called on the service's detector
ProcessImageFile(q) ==
    /\ det.exists
    /\ GCanStart
    /\ rec' = process_image_file(det, q)
    /\ gcalls' = gcalls + 1
    /\ UNCHANGED <<attendance, enroll, disk, det, trainer, recognizer, build>>

GNext ==
    \/ TrainModel
    \/ LoadEncodings
    \/ LoadNames
    \/ \E q \in QueryInputs, c \in ClassroomRequests : Recognize(q, c)
    \/ RecognizeName
    \/ \E q \in QueryInputs : ProcessImageFile(q)

GallerySpec == GInit /\ [][GNext]_vars

\* ====================================================================
\* AttendanceLog.get_attendance_rate, applied to the sessions the counters
\* of which range over 0..MaxRoster
\* ====================================================================

MaxRoster == 7           \* largest roster and largest count of a session

RECURSIVE GCD(_, _)
GCD(a, b) == IF b = 0 THEN a ELSE GCD(b, a % b)

\* the number n / d, kept in lowest terms
Fraction(n, d) == <<n \div GCD(n, d), d \div GCD(n, d)>>

\* true division of two integers and the product of a number by an integer
TrueDiv(a, b) == Fraction(a, b)

Times(x, k) == Fraction(x[1] * k, x[2])

\* floor division
FloorDiv(a, b) == Fraction(a \div b, 1)

\* a rate computed with floor division
FloorRate(log) ==
    IF log.total_students = 0 THEN Fraction(0, 1)
    ELSE Times(FloorDiv(log.present_count, log.total_students), 100)

\* AttendanceLog.get_attendance_rate
get_attendance_rate(log) ==
    IF log.total_students = 0 THEN Fraction(0, 1)
    ELSE Times(TrueDiv(log.present_count, log.total_students), 100)

\* one session with any counters
RateInit ==
    /\ students = [s \in Students |->
                     [classroom_id |-> StudentClassroom[s], is_active |-> TRUE]]
    /\ \E total \in 0..MaxRoster, present \in 0..MaxRoster :
         logs = {[NewLog(1, 1, 1, "morning", 0, total)
                    EXCEPT !.present_count = present]}
    /\ attendances = {}
    /\ next_log_id = 2
    /\ next_att_id = 1
    /\ cog_ret = OpenSession.cog_ret
    /\ now = 0
    /\ pc = [p \in Procs |-> "idle"]
    /\ local = [p \in Procs |-> NoLocal]
    /\ calls = 0
    /\ last_op = NoOp
    /\ GalleryOff

\* a caller reads the rate of a session (to_dict, line 77)
GetAttendanceRate ==
    /\ calls < MaxCalls
    /\ \E l \in logs :
         last_op' = Call("get_attendance_rate", <<l.id>>, NULL, "ok", "rate",
                         get_attendance_rate(l))
    /\ calls' = calls + 1
    /\ UNCHANGED <<students, logs, attendances, next_log_id, next_att_id, now,
                   pc, local, cog_ret>>
    /\ UNCHANGED gallery

RateNext == GetAttendanceRate

RateSpec == RateInit /\ [][RateNext]_vars

\* ====================================================================
\* The sweep as a recurring job: the scheduler calls
\* auto_mark_absent_after_deadline again and again while the clock advances
\* ====================================================================

\* the least id above every id of the rows
FreshId(rows) ==
    1 + CHOOSE n \in {0} \cup {r.id : r \in rows} : \A r \in rows : r.id <= n

\* the next period of the scheduler begins: the count of calls starts anew;
\* the ids that rolled-back inserts took from the sequences are not kept
\* (an id only has to be fresh)
NextPeriod ==
    /\ \A p \in Procs : pc[p] = "idle"
    /\ calls > 0
    /\ calls' = 0
    /\ next_log_id' = FreshId(logs)
    /\ next_att_id' = FreshId(attendances)
    /\ UNCHANGED <<students, logs, attendances, now, pc, local, last_op,
                   cog_ret>>
    /\ UNCHANGED gallery

SweepNext ==
    \/ Tick
    \/ NextPeriod
    \/ \E p \in Procs :
         \/ SweepStart(p)
         \/ SweepStep(p)

\* the scheduler calls the job in period after period, a started job runs
\* on, and the clock advances
SweepFairness ==
    /\ WF_vars(Tick)
    /\ WF_vars(NextPeriod)
    /\ WF_vars(\E p \in Procs : SweepStart(p))
    /\ WF_vars(\E p \in Procs : SweepStep(p))

SweepSpec == Init /\ [][SweepNext]_vars /\ SweepFairness

\* ====================================================================
\* Properties
\* ====================================================================

\* a call of worker p that had been cut after its read returns in this step
Returns(p, at) == pc[p] = at /\ pc'[p] = "idle"

\* a call that reads and returns in one step returns in this step
ReturnsAtOnce(op) ==
    /\ calls' = calls + 1
    /\ last_op'.op = op
    /\ \A p \in Procs : pc[p] = "idle" \/ pc'[p] # "idle"

SameKey(l1, l2) ==
    /\ l1.classroom_id = l2.classroom_id
    /\ l1.session_date = l2.session_date
    /\ l1.session_type = l2.session_type

\* C1: create_or_get_attendance_log is idempotent.  A call for a valid key
\* that is made after a successful call for the same key succeeds, returns
\* the id the earlier call returned, and leaves the table of sessions as it
\* is (no new session, no attribute of the existing one changed), whatever
\* happened to the roster in between.
C1_CreateOrGetIdempotent ==
    [][ /\ \A p \in Procs :
             (Returns(p, "cog_insert") /\ local[p].prior # NULL)
             => /\ last_op'.outcome = "ok"
                /\ last_op'.ret = local[p].prior
                /\ logs' = logs
        /\ (/\ ReturnsAtOnce("create_or_get")
            /\ last_op'.outcome # "ValueError"
            /\ cog_ret[last_op'.key] # NULL)
           => /\ last_op'.outcome = "ok"
              /\ last_op'.ret = cog_ret[last_op'.key]
              /\ logs' = logs
      ]_vars

\* C1 witness: a second call returned the existing session although the
\* active roster no longer has the size the session recorded at creation
C1_Witness ==
    /\ last_op.op = "create_or_get"
    /\ last_op.path = "found"
    /\ \E l \in logs :
         /\ l.id = last_op.ret
         /\ l.total_students # Cardinality(ActiveStudents(students, l.classroom_id))

\* C2: in every reachable state there is at most one session per
\* (classroom, date, session type), however the lookups and inserts of
\* concurrent create-or-get calls interleave.
C2_UniqueSession ==
    \A l1, l2 \in logs : SameKey(l1, l2) => l1 = l2

\* C2 witness: two calls raced for the same key and the store rejected the
\* loser's insert
C2_Witness ==
    /\ last_op.op = "create_or_get"
    /\ last_op.outcome = "IntegrityError"
    /\ logs # {}

\* C3: in every reachable state there is at most one attendance record per
\* (student, session), after any record_attendance calls and sweep runs.
C3_UniqueRecord ==
    \A a1, a2 \in attendances :
        (a1.student_id = a2.student_id
           /\ a1.attendance_log_id = a2.attendance_log_id) => a1 = a2

\* C3 witness: a second insert for a recorded (student, session) pair was
\* attempted and rejected
C3_Witness ==
    /\ last_op.op = "record_attendance"
    /\ last_op.outcome = "IntegrityError"
    /\ attendances # {}

\* C4: record_attendance(S, L, status1, c1) followed by
\* record_attendance(S, L, status2, c2) with c1 < c2, where the first call
\* left c1 as the stored confidence, leaves exactly one record for (S, L),
\* with confidence c2 and status status2.
C4_HigherConfidenceOverwrites ==
    [][ \A p \in Procs :
          LET a == local[p].args
              stored == FindAttendances(attendances, a.student_id, a.log_id)
              after == FindAttendances(attendances', a.student_id, a.log_id)
          IN (/\ Returns(p, "ra_write")
              /\ local[p].start = calls
              /\ last_op.op = "record_attendance"
              /\ last_op.outcome = "ok"
              /\ last_op.key = <<a.student_id, a.log_id>>
              /\ last_op.conf < a.face_confidence
              /\ \A r \in stored : r.face_confidence = last_op.conf)
             => /\ Cardinality(after) = 1
                /\ \A r \in after : /\ r.face_confidence = a.face_confidence
                                    /\ r.status = a.status
      ]_vars

\* C4 witness: student 2, who has no record in any initial store, was
\* recorded by one call and upgraded to 0.95 / present by the next
C4_Witness ==
    /\ last_op.op = "record_attendance"
    /\ last_op.path = "updated"
    /\ last_op.conf = 95
    /\ \E r \in attendances :
         /\ r.id = last_op.ret
         /\ r.student_id = 2
         /\ r.face_confidence = 95
         /\ r.status = "present"

\* C5: a record_attendance call whose confidence is lower than or equal to
\* the stored confidence of the existing record of (S, L) returns that
\* record and changes nothing: no field of it (not the status either, when
\* the call's status differs) and no other record.
C5_LowerConfidenceUnchanged ==
    [][ \A p \in Procs :
          LET a == local[p].args
              e == local[p].existing
          IN (/\ Returns(p, "ra_write")
              /\ e \in attendances
              /\ a.face_confidence <= e.face_confidence)
             => /\ attendances' = attendances
                /\ last_op'.outcome = "ok"
                /\ last_op'.ret = e.id
      ]_vars

\* C5 witness: a call with a lower confidence than the stored one returned
\* the existing record
C5_Witness ==
    /\ last_op.op = "record_attendance"
    /\ last_op.path = "unchanged"
    /\ \E r \in attendances :
         r.id = last_op.ret /\ last_op.conf < r.face_confidence

\* C6: two concurrent record_attendance calls against an existing record of
\* (S, L) leave the maximum of the stored confidence and the two calls'
\* confidences, in whatever order they read and commit.
C6_RaceConvergesToMax ==
    [][ \A p \in Procs :
          LET a == local[p].args
              e == local[p].existing
              after == FindAttendances(attendances', a.student_id, a.log_id)
          IN (/\ Returns(p, "ra_write")
              /\ e.id # NULL
              /\ calls = local[p].start + 1
              /\ last_op.op = "record_attendance"
              /\ last_op.outcome = "ok"
              /\ last_op.key = <<a.student_id, a.log_id>>)
             => \A r \in after :
                  r.face_confidence =
                    Max(e.face_confidence, Max(last_op.conf, a.face_confidence))
      ]_vars

\* C7: when two record_attendance calls for one (S, L) both read "no
\* record" and both insert, the loser's insert becomes an update under the
\* merge rule: the call returns no error and the record carries the higher
\* of the two confidences.
C7_DuplicateInsertMerged ==
    [][ \A p \in Procs :
          LET a == local[p].args
              stored == FindAttendances(attendances, a.student_id, a.log_id)
              after == FindAttendances(attendances', a.student_id, a.log_id)
          IN (/\ Returns(p, "ra_write")
              /\ local[p].existing.id = NULL
              /\ stored # {})
             => /\ last_op'.outcome = "ok"
                /\ \A r \in after : \A r0 \in stored :
                     r.face_confidence = Max(r0.face_confidence, a.face_confidence)
      ]_vars

\* C8: the finalized flag is monotonic: no step of any handler sets the
\* is_finalized of a session back to false.
C8_FinalizedMonotonic ==
    [][ \A l \in logs : l.is_finalized =>
          \E m \in logs' : m.id = l.id /\ m.is_finalized ]_vars

\* C8 witness: a session was finalized and a later create-or-get call found
\* it, still finalized
C8_Witness ==
    /\ last_op.op = "create_or_get"
    /\ last_op.path = "found"
    /\ \E l \in logs : l.id = last_op.ret /\ l.is_finalized

\* C9: once a session is finalized, neither a record_attendance call that
\* finds it finalized nor a sweep's absent-marking changes its set of
\* records or any field of them.
C9_FinalizedNotMutated ==
    [][ \A l \in logs :
          (/\ l.is_finalized
           /\ \/ \E p \in Procs : Returns(p, "ra_write") /\ local[p].log = l
              \/ \E p \in Procs : pc[p] = "sweep" /\ local'[p] # local[p]
              \/ ReturnsAtOnce("mark_absent"))
          => SessionAttendance(attendances', l.id) = SessionAttendance(attendances, l.id)
      ]_vars

\* C10: in every reachable state the four counts of a finalized session
\* equal the numbers of its records with the corresponding status.
C10_FinalizedCountsAccurate ==
    \A l \in logs : l.is_finalized =>
        /\ l.present_count = CountStatus(attendances, l.id, "present")
        /\ l.absent_count = CountStatus(attendances, l.id, "absent")
        /\ l.late_count = CountStatus(attendances, l.id, "late")
        /\ l.excused_count = CountStatus(attendances, l.id, "excused")

\* the four status counts of session l are those of its records in atts
CountsMatch(l, atts) ==
    /\ l.present_count = CountStatus(atts, l.id, "present")
    /\ l.absent_count = CountStatus(atts, l.id, "absent")
    /\ l.late_count = CountStatus(atts, l.id, "late")
    /\ l.excused_count = CountStatus(atts, l.id, "excused")

\* C11: a successful finalize_attendance_log call leaves the session with
\* total_students equal to the number of students active in its classroom
\* at the time of the call (whatever the snapshot taken at creation was),
\* the four counts equal to the numbers of its records per status,
\* is_finalized true and end_time set to the time of the call.
C11_FinalizeRecomputes ==
    [][ (ReturnsAtOnce("finalize") /\ last_op'.outcome = "ok")
        => \E l \in logs' :
             /\ l.id = last_op'.ret
             /\ l.total_students =
                  Cardinality(ActiveStudents(students, l.classroom_id))
             /\ CountsMatch(l, attendances)
             /\ l.is_finalized
             /\ l.end_time = now
      ]_vars

\* C11 witness: a session created with two active students was finalized
\* after one of them had been deactivated, and its total is 1
C11_Witness ==
    /\ last_op.op = "finalize"
    /\ last_op.outcome = "ok"
    /\ \E l \in logs :
         /\ l.id = last_op.ret
         /\ l.is_finalized
         /\ l.start_time = 0
         /\ l.total_students = 1
         /\ Cardinality(ActiveStudents(students, l.classroom_id)) = 1

\* C12: finalize_attendance_log is idempotent: a finalize call that follows
\* a successful finalize of the same session, with no record or roster
\* change in between, raises no error and leaves total_students, the four
\* counts and the finalized flag as the first call left them.
C12_FinalizeIdempotent ==
    [][ (/\ last_op.op = "finalize"
         /\ last_op.outcome = "ok"
         /\ ReturnsAtOnce("finalize")
         /\ last_op'.key = last_op.key)
        => /\ last_op'.outcome = "ok"
           /\ \A l \in logs : l.id = last_op.ret =>
                \E m \in logs' :
                  /\ m.id = l.id
                  /\ m.total_students = l.total_students
                  /\ m.present_count = l.present_count
                  /\ m.absent_count = l.absent_count
                  /\ m.late_count = l.late_count
                  /\ m.excused_count = l.excused_count
                  /\ m.is_finalized = l.is_finalized
      ]_vars

\* C12 witness: a session with a record was finalized twice in a row
C12_Witness ==
    /\ last_op.op = "finalize"
    /\ last_op.outcome = "ok"
    /\ last_op.again
    /\ \E l \in logs : l.id = last_op.ret /\ l.is_finalized /\ l.present_count = 1

\* worker p takes one turn of the sweep's loop in this step
SweepTurn(p) == pc[p] = "sweep" /\ local'[p] # local[p]

\* what the sweep is to leave of the stale open session l: the records it
\* had are untouched, every active student of the classroom has exactly one
\* record, the added ones are absent with the fixed note, and the session is
\* finalized with its counts and its total recomputed
Swept(l) ==
    LET roster == ActiveStudents(students, l.classroom_id)
        before == SessionAttendance(attendances, l.id)
        after == SessionAttendance(attendances', l.id)
    IN /\ before \subseteq after
       /\ \A s \in roster :
            Cardinality(FindAttendances(attendances', s, l.id)) = 1
       /\ \A r \in after \ before : r.status = "absent" /\ r.notes = AbsentNote
       /\ \E x \in logs' :
            /\ x.id = l.id
            /\ x.is_finalized
            /\ x.total_students = Cardinality(roster)
            /\ x.present_count = CountStatus(attendances, l.id, "present")
            /\ x.absent_count = CountStatus(attendances, l.id, "absent")
                 + Cardinality({s \in roster :
                                  FindAttendances(attendances, s, l.id) = {}})

\* C13: a turn of the sweep on a stale session that is still open inserts
\* one absent record with the fixed note for every active student without a
\* record, leaves the existing records untouched and finalizes the session:
\* afterwards every active student has exactly one record, present_count is
\* the number of present records and absent_count counts the students that
\* had no record.
C13_SweepMarksAndFinalizes ==
    [][ \A p \in Procs :
          (SweepTurn(p) /\ local[p].old_logs \subseteq logs)
          => \E l \in local[p].old_logs : Swept(l)
      ]_vars

\* a step of a sweep run that began after the call completed last
NextSweepStep ==
    \/ ReturnsAtOnce("sweep")
    \/ \E p \in Procs : SweepTurn(p) /\ local[p].start = calls

\* C14: the sweep is idempotent: a sweep run that follows a run which
\* processed its sessions, with no other call in between, inserts no
\* record into a processed (finalized) session, modifies none of its
\* records and changes no attribute of the session.
C14_SweepIdempotent ==
    [][ \A l \in logs :
          (/\ l.is_finalized
           /\ last_op.op = "sweep"
           /\ last_op.outcome = "ok"
           /\ last_op.path = "swept"
           /\ NextSweepStep)
          => /\ l \in logs'
             /\ SessionAttendance(attendances', l.id) = SessionAttendance(attendances, l.id)
      ]_vars

\* C14 witness: the sweep processed a session and ran again, and the second
\* run marked nobody
C14_Witness ==
    /\ last_op.op = "sweep"
    /\ last_op.outcome = "ok"
    /\ last_op.again
    /\ last_op.ret = 0
    /\ \E l \in logs : l.is_finalized /\ l.start_time < 0

\* absent-marking of session l raises nothing in the present store
Markable(l) ==
    mark_absent_unrecorded(Store, l.classroom_id, l.session_date,
                           l.session_type).outcome = "ok"

\* C15: the sweep continues past per-session errors: when a run ends,
\* every stale open session it had selected whose own processing raises
\* nothing has been finalized, whatever happened to the other sessions of
\* the run.
C15_SweepContinuesPastErrors ==
    [][ \A p \in Procs :
          (SweepTurn(p) /\ pc'[p] = "idle")
          => \A l \in local[p].old_logs :
               Markable(l) => \E x \in logs' : x.id = l.id /\ x.is_finalized
      ]_vars

\* the recognition in progress reads its label in this step
ReadsLabel ==
    /\ recognizer.pc = "name"
    /\ recognizer'.pc = "idle"
    /\ recognizer.confidence >= DEFAULT_FACE_CONFIDENCE

\* C16: a recognition that runs while train_model swaps the gallery matches
\* against one complete gallery: the label it returns is read at the index
\* of the best match from the label list that belongs to the encodings the
\* distances were computed on, so it is the label of the student whose
\* image produced the matched encoding, and the read never falls outside
\* the list.
C16_RecognizeSeesWholeGallery ==
    [][ ReadsLabel
        => /\ rec'.outcome # "IndexError"
           /\ rec'.name =
                full_name[recognizer.encodings[recognizer.index].owner]
      ]_vars

\* the two lists of a gallery have one length and the label at each
\* position is the name of the student whose image gave the encoding
Aligned(encodings, names) ==
    /\ Len(encodings) = Len(names)
    /\ \A i \in 1..Len(encodings) : names[i] = full_name[encodings[i].owner]

\* C17: in every reachable state the encoding list and the label list have
\* the same length and are aligned position by position, in the lists a
\* running train_model has built, in the model file and in the detector;
\* and saving the built lists and loading them again gives the same pairs
\* in the same order.
C17_GalleryAligned ==
    /\ Aligned(det.known_encodings, det.known_names)
    /\ disk # NoFile => Aligned(Load(disk).encodings, Load(disk).names)
    /\ trainer.pc # "idle"
       => /\ Aligned(trainer.known_encodings, trainer.known_names)
          /\ Load(Dump(trainer.known_encodings, trainer.known_names))
               = [encodings |-> trainer.known_encodings,
                  names |-> trainer.known_names]

\* the students named in a list of a train_model result
Listed(persons) == {persons[i] : i \in 1..Len(persons)}

\* a train_model call returns in this step, with or without a reload of
\* the detector
TrainReturns == (TrainModel /\ trainer'.pc = "idle") \/ LoadNames

\* C18: train_model reports every student of its batch.  When a call
\* returns, each student submitted to the training (active, with enough
\* images on record) is in exactly one of trained_persons and
\* failed_persons, also a student rejected for too few image files; a
\* student with enough images showing a face is trained whatever happens to
\* the others; and the result is successful whenever a student was trained.
C18_BuildReportsEveryone ==
    [][ TrainReturns
        => /\ \A s \in ReadyStudents(students, enroll) :
                (s \in Listed(build'.trained_persons))
                  # (s \in Listed(build'.failed_persons))
           /\ \A s \in ReadyStudents(students, enroll) :
                (enroll[s].files >= min_images /\ enroll[s].faces >= min_images)
                => s \in Listed(build'.trained_persons)
           /\ build'.trained_persons # <<>> => build'.success
      ]_vars

\* the students who own an entry of the model file
Owners(blob) ==
    IF blob = NoFile THEN {}
    ELSE {Load(blob).encodings[i].owner : i \in 1..Len(Load(blob).encodings)}

\* C19: a student is trained only with at least min_images encodings.  When
\* a train_model call returns, every trained student has at least
\* min_images images in which a face was found, and a student of the loop
\* who has at least min_images image files but fewer than min_images with a
\* face is in failed_persons and owns no entry of the gallery the call
\* saved.
C19_TrainedHasEnoughEncodings ==
    [][ TrainReturns
        => /\ \A s \in Listed(build'.trained_persons) :
                enroll[s].faces >= min_images
           /\ \A s \in StudentsWithFolders(students, enroll) :
                (enroll[s].files >= min_images /\ enroll[s].faces < min_images)
                => /\ s \in Listed(build'.failed_persons)
                   /\ build'.saved => s \notin Owners(disk')
      ]_vars

\* the results of the train_model call that acts in this step: returned, or
\* kept until the detector is reloaded
ResultsInHand == IF trainer'.pc = "idle" THEN build' ELSE trainer'.results

\* the gallery a detector serves
Served(d) == <<d.known_encodings, d.known_names>>

\* C20: the gallery is replaced only by a successful build.  The model file
\* changes only in a train_model call that trained at least one student and
\* produced at least one encoding; the gallery of an existing detector
\* changes only in the reload of such a call; and a call that trains no
\* student returns an unsuccessful result and leaves the model file and the
\* detector as they were.
C20_ReplacedOnlyOnSuccess ==
    [][ /\ disk' # disk
           => /\ TrainModel
              /\ ResultsInHand.success
              /\ ResultsInHand.trained_count >= 1
              /\ ResultsInHand.total_encodings >= 1
        /\ (det.exists /\ Served(det') # Served(det))
           => /\ trainer.pc \in {"load_encodings", "load_names"}
              /\ trainer.results.success
              /\ trainer.results.trained_count >= 1
              /\ trainer.results.total_encodings >= 1
        /\ (TrainReturns /\ build'.trained_count = 0)
           => /\ ~build'.success
              /\ disk' = disk
              /\ det' = det
      ]_vars

\* C20 witness: a call in which every student of the loop failed has
\* returned, and the gallery of the earlier training is still in the file
\* and in the detector
C20_Witness ==
    /\ build.failed_persons # <<>>
    /\ build.trained_count = 0
    /\ ~build.success
    /\ disk = OldBlob
    /\ det = load_model(NewDetector, OldBlob)

\* a confidence brought into [0, 1]
Clamped(c) == IF c < 0 THEN 0 ELSE IF c > 100 THEN 100 ELSE c

\* the least of the distances ds
Least(ds) == CHOOSE d \in {ds[i] : i \in 1..Len(ds)} : \A j \in 1..Len(ds) : d <= ds[j]

\* C21: for every frame with a face and every non-empty loaded gallery,
\* recognize_face computes confidence = 1 - (least distance to an entry of
\* the gallery) clamped to [0, 1], so that the confidence it returns is
\* never negative and never above 1; and it returns the label of the matched
\* entry exactly when the confidence is at least the detector's threshold,
\* "Unknown" otherwise.
C21_ConfidenceClamped ==
    [][ /\ \A q \in QueryInputs, c \in ClassroomRequests :
             (Recognize(q, c) /\ recognizer'.pc = "name")
             => recognizer'.confidence
                  = Clamped(100 - Least(face_distance(det'.known_encodings, q)))
        /\ RecognizeName
           => /\ rec'.confidence = recognizer.confidence
              /\ 0 <= rec'.confidence /\ rec'.confidence <= 100
              /\ (rec'.name # "Unknown")
                   <=> (rec'.confidence >= DEFAULT_FACE_CONFIDENCE)
      ]_vars

\* C22: when several entries of the gallery, with different labels, are at
\* the same least distance from the frame's encoding, recognize_face returns
\* the label of the one that comes first in the gallery; and a recognition
\* that reads the same frame and the same gallery as the one before it
\* returns the same label and the same confidence.
C22_TieFirstAndDeterministic ==
    [][ RecognizeName
        => LET ds == face_distance(recognizer.encodings, recognizer.frame)
           IN /\ \A j \in 1..Len(ds) :
                   ds[j] = Least(ds) => recognizer.index <= j
              /\ (rec'.outcome # "IndexError" /\ rec'.name # "Unknown")
                 => rec'.name = det.known_names[recognizer.index]
              /\ rec'.again
                 => /\ rec'.name = rec.name
                    /\ rec'.confidence = rec.confidence
      ]_vars

\* C22 witness: a frame at one distance from the encodings of two students
\* was recognized twice against the same gallery, as the student whose
\* encodings come first
C22_Witness ==
    /\ rec.name # "Unknown"
    /\ rec.again
    /\ rec.frame.d_near = rec.frame.d_far
    /\ rec.index = 1
    /\ rec.name = full_name[rec.encodings[1].owner]
    /\ \E j \in 2..Len(rec.encodings) :
         rec.encodings[j].owner # rec.encodings[1].owner

\* what the caller of a recognition gets, without the frame it passed
Outcome(r) == <<r.outcome, r.faces_detected, r.name, r.confidence>>

\* a detector with a gallery loaded
LoadedDetector == load_model(NewDetector, OldBlob)

\* what a recognition returns for a frame without a face when a gallery is
\* loaded: through the service, and from the detector
NoFaceOutcomes ==
    {Outcome(Unmatched("No face detected", NULL))}
      \cup {Outcome(process_image_file(LoadedDetector, q)) :
              q \in {x \in QueryInputs : ~x.face}}

\* C23: a recognition made while no gallery is loaded fails at once with an
\* outcome of its own, one that a frame without a face never gives, and it
\* neither trains nor writes the model file.
C23_FailsFastWithoutGallery ==
    [][ \A q \in QueryInputs, c \in ClassroomRequests :
          ((Recognize(q, c) \/ ProcessImageFile(q)) /\ ~det'.model_loaded)
          => /\ Outcome(rec') \notin NoFaceOutcomes
             /\ rec'.outcome # "success"
             /\ disk' = disk
             /\ build' = build
             /\ trainer' = trainer
      ]_vars

\* C24: record_attendance enforces MIN_FACE_CONFIDENCE before it writes.  A
\* call for a recognized check-in (is_face_recognized true) whose confidence
\* is below MIN_FACE_CONFIDENCE inserts no record and changes no record, and
\* so no stored record with is_face_recognized set has a confidence below
\* MIN_FACE_CONFIDENCE.
C24_StrictThresholdEnforced ==
    /\ [][ \A p \in Procs :
             (/\ Returns(p, "ra_write")
              /\ local[p].args.recognized
              /\ local[p].args.face_confidence < MIN_FACE_CONFIDENCE)
             => attendances' = attendances
         ]_vars
    /\ [](\A a \in attendances :
            a.is_face_recognized => a.face_confidence >= MIN_FACE_CONFIDENCE)

\* C25: for every session the attendance rate is
\* present_count / total_students * 100, and it is 0 when total_students is
\* 0; in integers, rate * total_students = present_count * 100 whenever
\* total_students > 0.
C25_AttendanceRate ==
    \A l \in logs :
      (last_op.op = "get_attendance_rate" /\ last_op.key = <<l.id>>)
      => /\ l.total_students = 0 => last_op.ret = <<0, 1>>
         /\ l.total_students > 0
            => last_op.ret[1] * l.total_students
                 = l.present_count * 100 * last_op.ret[2]

\* C25 witness: the rate of a session without students but with presences
\* was asked for, and came out as 0
C25_Witness ==
    /\ last_op.op = "get_attendance_rate"
    /\ last_op.ret = <<0, 1>>
    /\ \E l \in logs : l.total_students = 0 /\ l.present_count > 0

\* session id is open and started at least AUTO_MARK_ABSENT_HOURS ago
Overdue(id) ==
    \E l \in logs :
      /\ l.id = id
      /\ ~l.is_finalized
      /\ l.start_time <= now - AUTO_MARK_ABSENT_HOURS

\* session id is finalized
Finalized(id) == \E l \in logs : l.id = id /\ l.is_finalized

\* C26: when the scheduler calls auto_mark_absent_after_deadline again and
\* again, every session that is not finalized and started before the
\* deadline is eventually finalized, also a session in which an active
\* student has no record when the sweep runs.
C26_SweepEventuallyFinalizes ==
    \A id \in 1..2 : Overdue(id) ~> Finalized(id)

C28_CountsWithinRoster ==
    \A l \in logs :
      l.is_finalized
      => /\ l.present_count + l.absent_count + l.late_count + l.excused_count
              <= l.total_students
         /\ l.present_count <= l.total_students

\* what a finalization leaves in a session: the roster size, the four
\* counts and the flag
Closing(l) ==
    <<l.total_students, l.present_count, l.absent_count, l.late_count,
      l.excused_count, l.is_finalized>>

\* C29: the two ways of closing a session agree.  Whatever the session, its
\* records and the roster, closing it through stop-session leaves the same
\* total_students, the same four counts and the same flag as
\* finalize_attendance_log would, also when the roster changed after the
\* session was created with a total_students that is not 0.
C29_StopEqualsFinalize ==
    [][ \A id \in {l.id : l \in logs} :
          (/\ ReturnsAtOnce("stop")
           /\ last_op'.outcome = "ok"
           /\ last_op'.key = <<id>>)
          => \A l \in logs : \A k \in logs' :
               (l.id = id /\ k.id = id)
               => Closing(k)
                    = Closing(finalize_attendance_log(l, students, attendances,
                                                      now))
      ]_vars

\* C30: whenever recognize_student_face returns a verdict and no error
\* message, the student of the verdict is not None, is active, is the
\* student whose enrollment image produced the matched entry of the gallery,
\* belongs to the requested classroom when one is given, and the confidence
\* is at least MIN_FACE_CONFIDENCE.
C30_VerdictNamesTheStudent ==
    [][ (RecognizeName /\ rec'.outcome = "ok")
        => /\ rec'.student # NULL
           /\ students[rec'.student].is_active
           /\ rec'.student = recognizer.encodings[recognizer.index].owner
           /\ recognizer.classroom_id # NULL
              => students[rec'.student].classroom_id = recognizer.classroom_id
           /\ rec'.confidence >= MIN_FACE_CONFIDENCE
      ]_vars
====
